---------------------------- MODULE Spec2Model ----------------------------
(***************************************************************************)
(* Personal finance tracker (src/app.py, src/init_db.py): one SQLite table *)
(* "transactions", a Flask handler per route (GET /, POST /add,            *)
(* POST /upload, GET /export) and the upload normaliser normalize_upload.  *)
(*                                                                         *)
(* Text is a sequence of one-character strings, so that lower(), strip()   *)
(* and the substring test ("key in t") are computed, not assumed.          *)
(* Amounts are integers counting thousandths (1250 is 1.25), so that       *)
(* round(x, 2) is a real rounding.  Dates are records [f, y, m, d] where f *)
(* is the written form: "iso" (YYYY-MM-DD, zero padded), "loose" (same     *)
(* fields, not zero padded, e.g. 2024-1-5), "junk" (not a date), "nan"     *)
(* (an empty cell / a missing form field).                                 *)
(***************************************************************************)
EXTENDS Integers, Sequences, FiniteSets, TLC

VARIABLES
    transactions,   \* rows of table transactions, in rowid order
    seq,            \* AUTOINCREMENT counter of the table (sqlite_sequence)
    schema,         \* which CREATE TABLE made the table: "strict" (app.py) or "lax" (init_db.py)
    req,            \* the request being answered: [op, ...input]
    resp,           \* the response to it: flash message, rendered values, csv rows
    imported        \* the file whose upload filled the empty store, while nothing else was stored

vars == <<transactions, seq, schema, req, resp, imported>>

-----------------------------------------------------------------------------
(* Bounds of the model *)

\* most rows the table holds in the model (writes beyond it are not explored)
MaxStore == 2

\* most rows of an uploaded file
MaxRows == 2

-----------------------------------------------------------------------------
(* Text *)

UpperAlpha == <<"A","B","C","D","E","F","G","H","I","J","K","L","M",
                "N","O","P","Q","R","S","T","U","V","W","X","Y","Z">>

LowerAlpha == <<"a","b","c","d","e","f","g","h","i","j","k","l","m",
                "n","o","p","q","r","s","t","u","v","w","x","y","z">>

\* one character of str.lower()
LowerChar(c) ==
    IF \E i \in 1..Len(UpperAlpha) : UpperAlpha[i] = c
    THEN LowerAlpha[CHOOSE i \in 1..Len(UpperAlpha) : UpperAlpha[i] = c]
    ELSE c

\* a function on 1..n as the sequence of its values (a Python list or column,
\* computed once)
Tuple(f) == f \o <<>>

\* str.lower()
Lower(t) == Tuple([i \in 1..Len(t) |-> LowerChar(t[i])])

IsSpace(c) == c = " "

RECURSIVE LStrip(_)
LStrip(t) == IF t # <<>> /\ IsSpace(Head(t)) THEN LStrip(Tail(t)) ELSE t

RECURSIVE RStrip(_)
RStrip(t) ==
    IF t # <<>> /\ IsSpace(t[Len(t)]) THEN RStrip(SubSeq(t, 1, Len(t) - 1)) ELSE t

\* str.strip()
Strip(t) == RStrip(LStrip(t))

\* the Python test "key in t" on strings
Contains(key, t) ==
    \E i \in 1..(Len(t) - Len(key) + 1) : SubSeq(t, i, i + Len(key) - 1) = key

\* a missing value: pandas' NaN in a frame, None in a form, NULL in the table
NaN == <<"NaN">>

\* str(x) of a cell: the text itself, "nan" for a missing value
Str(x) == IF x = NaN THEN <<"n","a","n">> ELSE x


-----------------------------------------------------------------------------
(* Literals of the source *)

Income == <<"i","n","c","o","m","e">>

Expense == <<"e","x","p","e","n","s","e">>

Other == <<"O","t","h","e","r">>

Empty == <<>>

cDate == <<"d","a","t","e">>

cCategory == <<"c","a","t","e","g","o","r","y">>

cAmount == <<"a","m","o","u","n","t">>

cType == <<"t","y","p","e">>

cNotes == <<"n","o","t","e","s">>

\* the word "in" of the test  "in" in x  (app.py line 155)
InWord == <<"i","n">>

\* the alias table of normalize_upload, in the order the dict literal gives
Aliases == <<
    [want |-> cDate,     options |-> <<<<"d","a","t","e">>, <<"t","x","n","_","d","a","t","e">>, <<"t","r","a","n","s","a","c","t","i","o","n","_","d","a","t","e">>>>],
    [want |-> cCategory, options |-> <<<<"c","a","t","e","g","o","r","y">>, <<"m","e","r","c","h","a","n","t">>, <<"v","e","n","d","o","r">>, <<"d","e","s","c","r","i","p","t","i","o","n">>>>],
    [want |-> cAmount,   options |-> <<<<"a","m","o","u","n","t">>, <<"v","a","l","u","e">>, <<"a","m","t">>>>],
    [want |-> cType,     options |-> <<<<"t","y","p","e">>, <<"t","x","n","_","t","y","p","e">>, <<"c","r","e","d","i","t","_","d","e","b","i","t">>, <<"i","n","_","o","u","t">>>>],
    [want |-> cNotes,    options |-> <<<<"n","o","t","e","s">>, <<"r","e","m","a","r","k">>, <<"m","e","m","o">>, <<"n","a","r","r","a","t","i","o","n">>>> ] >>

Required == <<cDate, cCategory, cAmount, cType, cNotes>>

\* VENDOR_RULES, in the order the dict literal gives
VENDOR_RULES == <<
    [key |-> <<"u","b","e","r">>, cat |-> <<"T","r","a","v","e","l">>],
    [key |-> <<"o","l","a">>, cat |-> <<"T","r","a","v","e","l">>],
    [key |-> <<"z","o","m","a","t","o">>, cat |-> <<"F","o","o","d">>],
    [key |-> <<"s","w","i","g","g","y">>, cat |-> <<"F","o","o","d">>],
    [key |-> <<"a","m","a","z","o","n">>, cat |-> <<"S","h","o","p","p","i","n","g">>],
    [key |-> <<"f","l","i","p","k","a","r","t">>, cat |-> <<"S","h","o","p","p","i","n","g">>],
    [key |-> <<"e","l","e","c","t","r","i","c">>, cat |-> <<"B","i","l","l","s">>],
    [key |-> <<"w","a","t","e","r">>, cat |-> <<"B","i","l","l","s">>],
    [key |-> <<"g","a","s">>, cat |-> <<"B","i","l","l","s">>],
    [key |-> <<"s","a","l","a","r","y">>, cat |-> <<"I","n","c","o","m","e">>] >>

\* suggest_category without .lower(): keywords are found as written only
suggest_category_cased(text) ==
    LET t == Str(text)
        hits == {i \in 1..Len(VENDOR_RULES) : Contains(VENDOR_RULES[i].key, t)}
    IN  IF hits = {} THEN Other
        ELSE VENDOR_RULES[CHOOSE i \in hits : \A j \in hits : i <= j].cat

\* def suggest_category(text)
suggest_category(text) ==
    LET t == Lower(Str(text))
        hits == {i \in 1..Len(VENDOR_RULES) : Contains(VENDOR_RULES[i].key, t)}
    IN  IF hits = {} THEN Other
        ELSE VENDOR_RULES[CHOOSE i \in hits : \A j \in hits : i <= j].cat

-----------------------------------------------------------------------------
(* Dates *)

IsLeap(y) == (y % 4 = 0 /\ y % 100 # 0) \/ y % 400 = 0

DaysIn(y, m) ==
    IF m = 2 THEN (IF IsLeap(y) THEN 29 ELSE 28)
    ELSE IF m \in {4, 6, 9, 11} THEN 30 ELSE 31

\* a date of the calendar
ValidDate(d) == d.m \in 1..12 /\ d.d \in 1..DaysIn(d.y, d.m)

\* a date value was read: the text has year, month, day fields and they name a day
Parses(d) == d.f \in {"iso", "loose"} /\ ValidDate(d)

\* datetime.strptime(date, "%Y-%m-%d") returns (does not raise); the directives
\* take one or two digits, so the loose form passes; None raises TypeError
StrptimeOk(d) == Parses(d)

NullDate == [f |-> "nan", y |-> 0, m |-> 0, d |-> 0]

\* .strftime("%Y-%m-%d") of a parsed value: zero padded; NaT gives a missing value
Strftime(d) == IF d.f = "nan" THEN NullDate ELSE [d EXCEPT !.f = "iso"]

\* pd.to_datetime of one cell does not raise: a missing cell becomes NaT
ToDatetimeOk(d) == d.f = "nan" \/ Parses(d)

-----------------------------------------------------------------------------
(* Amounts: [k, v], k = "num" (a number, v thousandths), "str" (text that is *)
(* no number), "nan" (a missing cell, NaN, NULL), "none" (a missing field)  *)

Num(v) == [k |-> "num", v |-> v]

NullAmount == [k |-> "nan", v |-> 0]

\* float(x) returns (does not raise): numbers and NaN convert, text and None raise
FloatOk(a) == a.k \in {"num", "nan"}

\* the test  float(x) > 0  (every comparison with NaN is False)
Positive(a) == a.k = "num" /\ a.v > 0

\* no rounding at all
Unrounded(x) == x

\* round(x, 2) of a float: to the nearest hundredth (10 thousandths), ties to even
Round2(x) ==
    LET q == x \div 10
        r == x % 10
    IN  IF r < 5 THEN 10 * q
        ELSE IF r > 5 THEN 10 * (q + 1)
        ELSE IF q % 2 = 0 THEN 10 * q ELSE 10 * (q + 1)

-----------------------------------------------------------------------------
(* Frames: [cols, rows]; rows[r][i] is the cell of row r under column i.   *)
(* A label may occur twice in cols (pandas allows duplicate labels).       *)

NRows(df) == Len(df.rows)

Positions(df, c) == {i \in 1..Len(df.cols) : df.cols[i] = c}

\* the Python test  c in df
Has(df, c) == Positions(df, c) # {}

\* df[c] is a DataFrame, not a Series
Dup(df, c) == Cardinality(Positions(df, c)) > 1

First(df, c) == CHOOSE i \in Positions(df, c) : \A j \in Positions(df, c) : i <= j

\* df[c] = values, for a label the frame does not have yet
AppendCol(df, c, vals) ==
    [cols |-> Append(df.cols, c),
     rows |-> Tuple([r \in 1..NRows(df) |-> Append(df.rows[r], vals[r])])]

\* the cells the default na_values of pd.read_csv / pd.read_excel read as missing
NaValues == { <<>>, <<"N","A">>, <<"N","/","A">>, <<"n","/","a">>, <<"N","U","L","L">>,
              <<"n","u","l","l">>, <<"N","a","N">>, <<"n","a","n">>, <<"N","o","n","e">> }

\* a cell of a file: what it holds (k = "text", "date" or "num") and the value,
\* under t, d or a by kind
Cell(kind, c) ==
    [k |-> kind,
     t |-> IF kind = "text" THEN c ELSE <<>>,
     d |-> IF kind = "date" THEN c ELSE [f |-> "nan", y |-> 0, m |-> 0, d |-> 0],
     a |-> IF kind = "num" THEN c ELSE [k |-> "nan", v |-> 0]]

\* the value of a cell
Raw(c) == IF c.k = "text" THEN c.t ELSE IF c.k = "date" THEN c.d ELSE c.a

\* one cell as read: a text cell among na_values is NaN (an empty date or amount
\* cell is its "nan" record in the file already)
ReadCell(c) == IF c.k = "text" /\ c.t \in NaValues THEN NaN ELSE Raw(c)

\* pd.read_csv(file) of a file [cols, rows]: the header and the rows
ReadCsv(file) ==
    [cols |-> file.cols,
     rows |-> Tuple([r \in 1..Len(file.rows) |->
                Tuple([i \in 1..Len(file.cols) |-> ReadCell(file.rows[r][i])])])]

-----------------------------------------------------------------------------
(* normalize_upload: column detection *)

\* c.lower().strip()
Key(c) == Strip(Lower(c))

\* cols = {c.lower().strip(): c for c in df.columns}   (line 120), as the items
\* written, in column order; a later item replaces an earlier one with its key
ColsDict(df) == Tuple([i \in 1..Len(df.cols) |-> [key |-> Key(df.cols[i]), col |-> df.cols[i]]])

\* opt in cols
HasKey(cols, k) == \E i \in 1..Len(cols) : cols[i].key = k

\* cols[opt]: the value written last under the key
KeyCol(cols, k) ==
    LET S == {i \in 1..Len(cols) : cols[i].key = k}
    IN  cols[CHOOSE i \in S : \A j \in S : j <= i].col

\* the options of one alias entry that the file has, by position in the list
Matches(cols, e) == {j \in 1..Len(e.options) : HasKey(cols, e.options[j])}

\* the option the inner loop stops at (break): the first that matches
Chosen(cols, e) ==
    LET M == Matches(cols, e)
    IN  e.options[CHOOSE j \in M : \A k \in M : j <= k]

\* rename_map, as the set of its (column, canonical name) items
RenameMap(cols) ==
    { <<KeyCol(cols, Chosen(cols, Aliases[a])), Aliases[a].want>> :
        a \in {b \in 1..Len(Aliases) : Matches(cols, Aliases[b]) # {}} }

\* df.rename(columns=rename_map)
Rename(df) ==
    LET map == RenameMap(ColsDict(df))
    IN  [df EXCEPT !.cols =
            Tuple([i \in 1..Len(df.cols) |->
                IF \E p \in map : p[1] = df.cols[i]
                THEN (CHOOSE p \in map : p[1] = df.cols[i])[2]
                ELSE df.cols[i]])]

-----------------------------------------------------------------------------
(* normalize_upload: derivation, validation, coercion *)

\* the lambda with its branches swapped
DeriveTypeSwapped(a) == IF Positive(a) THEN Expense ELSE Income

\* lambda x: "income" if float(x) > 0 else "expense"      (line 139)
DeriveType(a) == IF Positive(a) THEN Income ELSE Expense

\* lambda x: "income" if "in" in x or x=="income" else "expense", on x = cell.lower()
CoerceType(x) == IF Contains(InWord, Lower(x)) \/ Lower(x) = Income THEN Income ELSE Expense

\* .fillna("Other")
FillCategory(x) == IF x = NaN THEN Other ELSE x

\* .fillna("")
FillNotes(x) == IF x = NaN THEN Empty ELSE x

\* the cells of every row under every column labelled c
Cells(df, c) == {df.rows[r][i] : r \in 1..NRows(df), i \in Positions(df, c)}

\* lines 136-141: if "type" not in df
WithType(df) ==
    IF Has(df, cType) THEN df
    ELSE IF Has(df, cAmount)
         THEN AppendCol(df, cType,
                [r \in 1..NRows(df) |-> DeriveType(df.rows[r][First(df, cAmount)])])
         ELSE AppendCol(df, cType, [r \in 1..NRows(df) |-> Expense])

\* line 139 raises: float(x) of a cell that is no number, or df["amount"] is a frame
\* (two columns labelled amount), whose column-wise apply cannot be assigned
TypeRaises(df) ==
    /\ ~Has(df, cType)
    /\ Has(df, cAmount)
    /\ (Dup(df, cAmount) \/ (\E x \in Cells(df, cAmount) : ~FloatOk(x)))

\* lines 142-143: if "category" not in df.  No column is labelled "description"
\* after the rename ("description" is an alias of category), so without a notes
\* column df.get returns the string "Other"
WithCategory(df) ==
    IF Has(df, cCategory) THEN df
    ELSE AppendCol(df, cCategory,
            [r \in 1..NRows(df) |-> suggest_category(df.rows[r][First(df, cNotes)])])

\* line 143 raises: "Other".apply is no attribute of str; or the notes are a frame
CategoryRaises(df) ==
    /\ ~Has(df, cCategory)
    /\ (~Has(df, cNotes) \/ Dup(df, cNotes))

\* lines 144-145: if "notes" not in df
WithNotes(df) ==
    IF Has(df, cNotes) THEN df
    ELSE AppendCol(df, cNotes, [r \in 1..NRows(df) |-> Empty])

\* lines 148-150: the required labels the frame lacks, by position in the list
MissingRequired(df) == {i \in 1..Len(Required) : ~Has(df, Required[i])}

\* line 153 raises: a cell is no date, or df["date"] is a frame without year/month/day
DateRaises(df) == Dup(df, cDate) \/ (\E x \in Cells(df, cDate) : ~ToDatetimeOk(x))

\* line 154 raises
AmountRaises(df) == (\E x \in Cells(df, cAmount) : ~FloatOk(x))

IsText(x) == x # NaN

\* line 155 raises: a frame has no .str; .str.lower() leaves NaN, and "in" in NaN
\* is a TypeError
TypeCoerceRaises(df) == Dup(df, cType) \/ (\E x \in Cells(df, cType) : ~IsText(x))

\* lines 153-157 on one cell under label c
CoerceCell(c, x) ==
    IF c = cDate THEN Strftime(x)
    ELSE IF c = cAmount THEN (IF x.k = "nan" THEN NullAmount ELSE x)
    ELSE IF c = cType THEN CoerceType(x)
    ELSE IF c = cCategory THEN FillCategory(x)
    ELSE IF c = cNotes THEN FillNotes(x)
    ELSE x

Coerce(df) ==
    [df EXCEPT !.rows =
        Tuple([r \in 1..NRows(df) |->
            Tuple([i \in 1..Len(df.cols) |-> CoerceCell(df.cols[i], df.rows[r][i])])])]

RECURSIVE Ascending(_)
Ascending(S) ==
    IF S = {} THEN <<>>
    ELSE LET lo == CHOOSE i \in S : \A j \in S : i <= j
         IN  <<lo>> \o Ascending(S \ {lo})

RECURSIVE SelectPositions(_, _)
SelectPositions(df, labels) ==
    IF labels = <<>> THEN <<>>
    ELSE Ascending(Positions(df, Head(labels))) \o SelectPositions(df, Tail(labels))

\* line 159: df[["date", "category", "amount", "type", "notes"]] keeps every column
\* that carries one of the labels
Select(df, labels) ==
    LET at == SelectPositions(df, labels)
    IN  [cols |-> Tuple([i \in 1..Len(at) |-> df.cols[at[i]]]),
         rows |-> Tuple([r \in 1..NRows(df) |->
                    Tuple([i \in 1..Len(at) |-> df.rows[r][at[i]]])])]

NoFrame == [cols |-> <<>>, rows |-> <<>>]

NoUpload == [cols |-> <<>>, rows |-> <<>>]

Raise(e) == [ok |-> FALSE, err |-> e, df |-> NoFrame]

\* def normalize_upload(df): the frame returned, or the exception raised
normalize_upload(df0) ==
    LET df1 == Rename(df0)
    IN  IF TypeRaises(df1) THEN Raise("could not convert to float")
        ELSE
        LET df2 == WithType(df1)
        IN  IF CategoryRaises(df2) THEN Raise("'str' object has no attribute 'apply'")
            ELSE
            LET df4 == WithNotes(WithCategory(df2))
            IN  IF MissingRequired(df4) # {}
                THEN Raise("Missing column after normalization")
                ELSE IF DateRaises(df4) THEN Raise("could not parse date")
                ELSE IF AmountRaises(df4) THEN Raise("could not convert to float")
                ELSE IF TypeCoerceRaises(df4) THEN Raise("argument of type 'float' is not iterable")
                ELSE [ok |-> TRUE, err |-> "", df |-> Select(Coerce(df4), Required)]

-----------------------------------------------------------------------------
(* Values the requests of the model are drawn from *)

tFood == <<"F","o","o","d">>

tFoodPadded == <<" ","F","o","o","d"," ">>

tRent == <<" ","r","e","n","t"," ">>

tNA == <<"N","A">>

tAmazonOrder == <<"A","m","a","z","o","n"," ","o","r","d","e","r">>

tColaAmazon == <<"c","o","l","a"," ","a","t"," ","a","m","a","z","o","n">>

tUberAmazon == <<"U","B","E","R"," ","t","o"," ","a","m","a","z","o","n">>

tSalary == <<"s","a","l","a","r","y"," ","M","a","y">>

tMisc == <<"m","i","s","c">>

tGasBill == <<"G","a","s"," ","b","i","l","l">>

tIncomeCap == <<"I","n","c","o","m","e">>

tCredit == <<"C","R","E","D","I","T">>

tDebit == <<"d","e","b","i","t">>

tIn == <<"i","n">>

tOut == <<"o","u","t">>

hDate == <<"D","a","t","e">>

hTxnDate == <<"t","x","n","_","d","a","t","e">>

hTransactionDate == <<"t","r","a","n","s","a","c","t","i","o","n","_","d","a","t","e">>

hAmountPadded == <<" ","A","m","o","u","n","t"," ">>

hValue == <<"v","a","l","u","e">>

hAmt == <<"a","m","t">>

hMemo == <<"M","e","m","o">>

hNotesCap == <<"N","o","t","e","s">>

hRemark == <<"r","e","m","a","r","k">>

hVendor == <<"v","e","n","d","o","r">>

hMerchant == <<"m","e","r","c","h","a","n","t">>

hDescription == <<"d","e","s","c","r","i","p","t","i","o","n">>

hInOut == <<"i","n","_","o","u","t">>

hBalance == <<"b","a","l","a","n","c","e">>


Day(f, y, m, d) == [f |-> f, y |-> y, m |-> m, d |-> d]

\* 2024-01-05
D1 == Day("iso", 2024, 1, 5)

\* 2024-02-29, a leap day
D2 == Day("iso", 2024, 2, 29)

\* 2024-3-7, not zero padded
DLoose == Day("loose", 2024, 3, 7)

\* 2023-02-29, no day of the calendar
DNoDay == Day("iso", 2023, 2, 29)

\* text that is no date
DJunk == Day("junk", 0, 0, 0)

\* text that is no number
NotANumber == [k |-> "str", v |-> 0]

\* a form without the amount field
NoAmount == [k |-> "none", v |-> 0]

\* every sequence over S of length 1 to n
SeqsUpTo(S, n) == UNION {[1..k -> S] : k \in 1..n}

RECURSIVE RowsOf(_, _)
\* the rows of a layout: one cell per column, of the column's kind, from its set
RowsOf(kinds, doms) ==
    IF doms = <<>> THEN {<<>>}
    ELSE {<<Cell(Head(kinds), c)>> \o r :
            c \in Head(doms), r \in RowsOf(Tail(kinds), Tail(doms))}

\* the files of a layout [cols, kinds, doms]: its header and 1 to MaxRows rows
FilesOf(L) ==
    {[cols |-> L.cols, rows |-> rs] : rs \in SeqsUpTo(RowsOf(L.kinds, L.doms), MaxRows)}

\* what the cells under the canonical header hold
RequiredKinds == <<"date", "text", "num", "text", "text">>

Form(d, c, a, t, n) == [date |-> d, category |-> c, amount |-> a, type |-> t, notes |-> n]

\* the forms POSTed to /add
AddForms ==
    {Form(d, tFoodPadded, Num(1250), Income, tRent) : d \in {D1, DLoose, DNoDay, NullDate}}
    \cup
    {Form(D1, tFoodPadded, Num(1250), t, tRent) : t \in {Expense, tIncomeCap, NaN}}
    \cup
    {Form(D1, NaN, a, Expense, NaN) : a \in {Num(-300), Num(4), NotANumber, NoAmount}}

\* the files POSTed to /upload, among the other requests
AppLayouts ==
    << [cols |-> Required, kinds |-> RequiredKinds,
       doms |-> <<{D2}, {tFood}, {Num(1255)}, {Income, Expense}, {Empty}>>],
      [cols |-> Required, kinds |-> RequiredKinds,
       doms |-> <<{DJunk}, {tFood}, {Num(1250)}, {Income}, {Empty}>>],
      [cols |-> <<cDate, cAmount>>, kinds |-> <<"date", "num">>,
       doms |-> <<{D1}, {Num(1250)}>>] >>

AppFiles == UNION {FilesOf(AppLayouts[i]) : i \in 1..Len(AppLayouts)}

\* the files of the normaliser's own specification: headers under aliases, in
\* other orders, in other case, doubled; cells that are missing or do not parse
NormLayouts ==
    << [cols |-> Required, kinds |-> RequiredKinds,
       doms |-> <<{D1, D2}, {tFood, Empty}, {Num(1250)}, {Income, Expense}, {Empty}>>],
      [cols |-> Required, kinds |-> RequiredKinds,
       doms |-> <<{D1}, {tFood, tNA}, {Num(1255), Num(-300), Num(0)}, {Income},
                  {Empty, tNA, tMisc}>>],
      [cols |-> Required, kinds |-> RequiredKinds,
       doms |-> <<{D1, DLoose, DNoDay, DJunk, NullDate}, {tFood},
                  {Num(1250), NotANumber, NullAmount}, {Expense}, {Empty}>>],
      [cols |-> <<cDate, cCategory, cAmount>>, kinds |-> <<"date", "text", "num">>,
       doms |-> <<{D1}, {tFood},
                  {Num(1250), Num(-300), Num(0), NullAmount, NotANumber}>>],
      [cols |-> <<hDate, hAmountPadded, hMemo>>, kinds |-> <<"date", "num", "text">>,
       doms |-> <<{D1}, {Num(1250), Num(-300)},
                  {tAmazonOrder, tColaAmazon, tUberAmazon, tSalary, tMisc, Empty,
                   tGasBill}>>],
      [cols |-> <<cDate, cAmount>>, kinds |-> <<"date", "num">>,
       doms |-> <<{D1, D2}, {Num(1250), Num(-300)}>>],
      [cols |-> <<cDate, cAmount, cType>>, kinds |-> <<"date", "num", "text">>,
       doms |-> <<{D1}, {Num(1250)}, {Income, Expense}>>],
      [cols |-> <<cDate, cCategory, cAmount, hInOut, cNotes>>, kinds |-> RequiredKinds,
       doms |-> <<{D1}, {tFood}, {Num(1250)},
                  {tIn, tOut, tCredit, tDebit, tIncomeCap, Empty}, {Empty}>>],
      [cols |-> <<hTxnDate, cDate, cCategory, cAmount, cType, cNotes>>,
       kinds |-> <<"date">> \o RequiredKinds,
       doms |-> <<{D2}, {D1}, {tFood}, {Num(1250)}, {Income}, {Empty, tMisc}>>],
      [cols |-> <<cDate, hTxnDate, cCategory, cAmount, cType, cNotes>>,
       kinds |-> <<"date">> \o RequiredKinds,
       doms |-> <<{D1}, {D2}, {tFood}, {Num(1250)}, {Income}, {Empty, tMisc}>>],
      [cols |-> <<hTransactionDate, hTxnDate, cCategory, cAmount, cType, cNotes>>,
       kinds |-> <<"date">> \o RequiredKinds,
       doms |-> <<{D2}, {D1}, {tFood}, {Num(1250)}, {Income}, {Empty, tMisc}>>],
      [cols |-> <<cDate, hVendor, hMerchant, hValue, cType, hRemark>>,
       kinds |-> <<"date", "text", "text", "num", "text", "text">>,
       doms |-> <<{D1}, {tAmazonOrder}, {tFood}, {Num(1250)}, {Income, Expense}, {tMisc}>>],
      [cols |-> <<cDate, cCategory, cAmount, cType, cNotes, hNotesCap>>,
       kinds |-> RequiredKinds \o <<"text">>,
       doms |-> <<{D1}, {tFood}, {Num(1250)}, {Income}, {tMisc, Empty}, {tRent}>>],
      [cols |-> <<cDate, cCategory, cAmount, cType, hNotesCap, cNotes>>,
       kinds |-> RequiredKinds \o <<"text">>,
       doms |-> <<{D1}, {tFood}, {Num(1250)}, {Income}, {tMisc, Empty}, {tRent}>>],
      [cols |-> <<cDate, hDate, cCategory, cAmount, cType, cNotes>>,
       kinds |-> <<"date">> \o RequiredKinds,
       doms |-> <<{D1}, {D2}, {tFood}, {Num(1250)}, {Income}, {Empty, tMisc}>>],
      [cols |-> <<cDate, cCategory, cAmount, cType, cNotes, hBalance>>,
       kinds |-> RequiredKinds \o <<"text">>,
       doms |-> <<{D1}, {tFood}, {Num(1250)}, {Expense}, {Empty}, {tMisc, Empty}>>],
      [cols |-> <<cCategory, cAmount>>, kinds |-> <<"text", "num">>,
       doms |-> <<{tFood}, {Num(1250), Num(-300)}>>],
      [cols |-> <<cDate, cCategory>>, kinds |-> <<"date", "text">>,
       doms |-> <<{D1, D2}, {tFood}>>],
      [cols |-> <<cDate, hDescription, hAmt, hRemark>>,
       kinds |-> <<"date", "text", "num", "text">>,
       doms |-> <<{D1}, {tFood, Empty}, {Num(-300)}, {tSalary, Empty}>>] >>

NormFiles == UNION {FilesOf(NormLayouts[i]) : i \in 1..Len(NormLayouts)}

\* lines 169-173: df = pd.read_csv(file); df = normalize_upload(df)
Normalized(file) == normalize_upload(ReadCsv(file))

\* the same, worked out once for each file of AppFiles (normalize_upload reads
\* nothing but the file)
AppNormalized == [file \in AppFiles |-> Normalized(file)] @@ <<>>

-----------------------------------------------------------------------------
(* Storage: table transactions *)

\* the constraints of CREATE TABLE in app.py (NOT NULL, CHECK(type IN ...));
\* the table of init_db.py states none
ConstraintsOk(row) ==
    schema = "strict" =>
        /\ row.date.f # "nan"
        /\ row.category # NaN
        /\ row.amount.k # "nan"
        /\ row.type \in {Income, Expense}

\* the row an INSERT writes from the values (date, category, amount, type, notes):
\* the table numbers it; a NaN is stored as NULL
Stored(id, v) ==
    [id |-> id, date |-> v.date, category |-> v.category,
     amount |-> v.amount, type |-> v.type, notes |-> v.notes]

\* df.to_sql("transactions", conn, if_exists="append", index=False): the values of
\* each frame row, by column label (of two columns with one label SQLite takes the first)
SqlValues(df) ==
    Tuple([r \in 1..NRows(df) |->
        [date     |-> df.rows[r][First(df, cDate)],
         category |-> df.rows[r][First(df, cCategory)],
         amount   |-> df.rows[r][First(df, cAmount)],
         type     |-> df.rows[r][First(df, cType)],
         notes    |-> df.rows[r][First(df, cNotes)]]])

\* rows numbered from 1 at every executemany
AppendedFromOne(vals) == Tuple([r \in 1..Len(vals) |-> Stored(r, vals[r])])

\* the rows appended by one executemany, numbered from the counter
Appended(vals) == Tuple([r \in 1..Len(vals) |-> Stored(seq + r, vals[r])])

RECURSIVE SumAmounts(_, _)
\* df[df["type"] == kind]["amount"].sum(): NaN is skipped
SumAmounts(rows, kind) ==
    IF rows = <<>> THEN 0
    ELSE (IF Head(rows).type = kind /\ Head(rows).amount.k = "num"
          THEN Head(rows).amount.v ELSE 0) + SumAmounts(Tail(rows), kind)

-----------------------------------------------------------------------------
(* Handlers *)

NoFile == [set |-> FALSE, file |-> NoUpload]

\* GET /    def home()
Home ==
    /\ req' = [op |-> "home"]
    /\ resp' =
        IF transactions = <<>>
        THEN [op |-> "home", income |-> 0, expense |-> 0, balance |-> 0,
              category_plot |-> "None", trend_plot |-> "None"]
        ELSE LET total_income == SumAmounts(transactions, Income)
                 total_expense == SumAmounts(transactions, Expense)
                 balance == total_income - total_expense
             IN  [op |-> "home",
                  income |-> Round2(total_income),
                  expense |-> Round2(total_expense),
                  balance |-> Round2(balance),
                  category_plot |->
                    IF \E i \in 1..Len(transactions) : transactions[i].type = Expense
                    THEN "html" ELSE "None",
                  trend_plot |-> "html"]
    /\ UNCHANGED <<transactions, seq, schema, imported>>

\* request.form.get(name, "")
GetOr(x, dflt) == IF x = NaN THEN dflt ELSE x

\* the validation without its test of the type
AddValidNoType(form) ==
    /\ StrptimeOk(form.date)
    /\ FloatOk(form.amount)

\* the validation of add_transaction passes (lines 84-87)
AddValid(form) ==
    /\ StrptimeOk(form.date)
    /\ FloatOk(form.amount)
    /\ form.type \in {Income, Expense}

\* the values add_transaction inserts (lines 76-80, 94)
AddValues(form) ==
    [date |-> form.date,
     category |-> Strip(GetOr(form.category, Empty)),
     amount |-> form.amount,
     type |-> form.type,
     notes |-> Strip(GetOr(form.notes, Empty))]

\* POST /add    def add_transaction()
Add(form) ==
    LET row == Stored(seq + 1, AddValues(form))
        done == AddValid(form) /\ ConstraintsOk(row)
    IN  /\ done => Len(transactions) < MaxStore
        /\ req' = [op |-> "add", form |-> form]
        /\ IF done
           THEN /\ transactions' = Append(transactions, row)
                /\ seq' = seq + 1
                /\ imported' = NoFile
                /\ resp' = [op |-> "add", ok |-> TRUE, flash |-> "Transaction added"]
           ELSE /\ resp' = [op |-> "add", ok |-> FALSE, flash |-> "Error"]
                /\ UNCHANGED <<transactions, seq, imported>>
        /\ UNCHANGED schema

\* POST /upload with a file    def upload(), n being normalize_upload's outcome
Upload(file, n) ==
    LET vals == SqlValues(n.df)
        rows == Appended(vals)
        done == n.ok /\ \A r \in 1..Len(rows) : ConstraintsOk(rows[r])
    IN  /\ done => Len(transactions) + Len(rows) <= MaxStore
        /\ req' = [op |-> "upload", file |-> file]
        /\ IF done
           THEN /\ transactions' = transactions \o rows
                /\ seq' = seq + Len(rows)
                /\ imported' = IF transactions = <<>>
                               THEN [set |-> TRUE, file |-> file] ELSE NoFile
                /\ resp' = [op |-> "upload", ok |-> TRUE, flash |-> "Uploaded",
                            count |-> Len(rows), out |-> n.df]
           ELSE /\ resp' = [op |-> "upload", ok |-> FALSE, flash |-> "Upload failed",
                            err |-> IF n.ok THEN "constraint failed" ELSE n.err]
                /\ UNCHANGED <<transactions, seq, imported>>
        /\ UNCHANGED schema

\* POST /upload without a file (lines 164-167)
UploadNoFile ==
    /\ req' = [op |-> "upload_nofile"]
    /\ resp' = [op |-> "upload_nofile", ok |-> FALSE, flash |-> "Please choose a file."]
    /\ UNCHANGED <<transactions, seq, schema, imported>>

\* GET /upload (line 183)
UploadForm ==
    /\ req' = [op |-> "upload_form"]
    /\ resp' = [op |-> "upload_form", page |-> "upload.html"]
    /\ UNCHANGED <<transactions, seq, schema, imported>>

\* out.to_csv: a missing value is written as an empty field
CsvText(x) == IF x = NaN THEN Empty ELSE x

\* one line of the exported file: SELECT *, the date through pd.to_datetime and
\* strftime("%Y-%m-%d")
CsvRow(row) ==
    [id |-> row.id,
     date |-> Strftime(row.date),
     category |-> CsvText(row.category),
     amount |-> row.amount,
     type |-> CsvText(row.type),
     notes |-> CsvText(row.notes)]

\* GET /export    def export()
Export ==
    /\ req' = [op |-> "export"]
    /\ resp' =
        IF transactions = <<>>
        THEN [op |-> "export", ok |-> FALSE, flash |-> "No data to export.", csv |-> <<>>]
        ELSE [op |-> "export", ok |-> TRUE, flash |-> "",
              csv |-> Tuple([i \in 1..Len(transactions) |-> CsvRow(transactions[i])])]
    /\ UNCHANGED <<transactions, seq, schema, imported>>

-----------------------------------------------------------------------------
(* The application: any request in any order *)

\* after ensure_db() of __main__: an empty table, made by app.py or, when
\* init_db.py ran first, by init_db.py (CREATE TABLE IF NOT EXISTS keeps it)
Init ==
    /\ transactions = <<>>
    /\ seq = 0
    /\ schema \in {"strict", "lax"}
    /\ req = [op |-> "none"]
    /\ resp = [op |-> "none"]
    /\ imported = NoFile

Next ==
    \/ Home
    \/ \E form \in AddForms : Add(form)
    \/ \E file \in AppFiles : Upload(file, AppNormalized[file])
    \/ UploadNoFile
    \/ UploadForm
    \/ Export

Spec == Init /\ [][Next]_vars

-----------------------------------------------------------------------------
(* The normaliser alone: one uploaded file, then the views of what it stored *)

InitNormalize ==
    /\ transactions = <<>>
    /\ seq = 0
    /\ schema \in {"strict", "lax"}
    /\ \E file \in NormFiles : req = [op |-> "post", file |-> file]
    /\ resp = [op |-> "none"]
    /\ imported = NoFile

UploadPosted == req.op = "post" /\ Upload(req.file, Normalized(req.file))

NextNormalize ==
    \/ UploadPosted
    \/ req.op # "post" /\ Home
    \/ req.op # "post" /\ Export

SpecNormalize == InitNormalize /\ [][NextNormalize]_vars

-----------------------------------------------------------------------------
(* Properties of the application (Spec) *)

Rows == 1..Len(transactions)

\* C1: after any sequence of POST /add and POST /upload, every stored row has
\* amount >= 0 and type income or expense.
C1_AmountNonNegativeKindValid ==
    \A i \in Rows :
        /\ transactions[i].amount.k = "num"
        /\ transactions[i].amount.v >= 0
        /\ transactions[i].type \in {Income, Expense}

\* x is y without the spaces at its ends
IsTrimOf(x, y) ==
    /\ x = <<>> \/ (x[1] # " " /\ x[Len(x)] # " ")
    /\ \E i \in 0..Len(y) :
        /\ i + Len(x) <= Len(y)
        /\ SubSeq(y, i + 1, i + Len(x)) = x
        /\ \A j \in (1..i) \cup ((i + Len(x) + 1)..Len(y)) : y[j] = " "

\* the text of a form field, "" when the field is absent
FieldText(x) == IF x = NaN THEN <<>> ELSE x

\* the form names a day of the calendar as year-month-day, zero padded or not
FormDateNamesDay(form) == form.date.f \in {"iso", "loose"} /\ ValidDate(form.date)

\* the form's date is written YYYY-MM-DD, zero padded
FormDateIsIso(form) == form.date.f = "iso" /\ ValidDate(form.date)

FormAmountNumeric(form) == form.amount.k = "num"

FormTypeValid(form) == form.type = Income \/ form.type = Expense

\* this step answered POST /add by adding exactly one row, which carries the
\* submitted date, trimmed category, amount, type and trimmed notes
AddedSubmitted ==
    /\ resp'.ok
    /\ Len(transactions') = Len(transactions) + 1
    /\ SubSeq(transactions', 1, Len(transactions)) = transactions
    /\ LET row == transactions'[Len(transactions')]
           form == req'.form
       IN  /\ row.date = form.date
           /\ row.amount = form.amount
           /\ row.type = form.type
           /\ IsTrimOf(row.category, FieldText(form.category))
           /\ IsTrimOf(row.notes, FieldText(form.notes))

AddRefused == ~resp'.ok /\ resp'.flash = "Error" /\ transactions' = transactions

C8_AppendOnly ==
    [][/\ Len(transactions') >= Len(transactions)
       /\ SubSeq(transactions', 1, Len(transactions)) = transactions
       /\ \A i, j \in 1..Len(transactions') :
            i # j => transactions'[i].id # transactions'[j].id
       /\ req'.op \in {"home", "export", "upload_form", "upload_nofile"} =>
            transactions' = transactions
       /\ (req'.op = "add" /\ resp'.ok) => Len(transactions') = Len(transactions) + 1
       /\ (req'.op = "upload" /\ resp'.ok) =>
            Len(transactions') = Len(transactions) + Len(req'.file.rows)
       /\ (req'.op \in {"add", "upload"} /\ ~resp'.ok) => transactions' = transactions
      ]_vars

\* an uploaded row was appended to a table that held a row already
C8_Witness ==
    /\ req.op = "upload"
    /\ resp.ok
    /\ Len(req.file.rows) = 1
    /\ Len(transactions) = 2
    /\ transactions[1].id = 1
    /\ transactions[2].id = 2

RECURSIVE TotalOf(_, _)
\* the sum of the amounts of the stored rows 1..n of one kind
TotalOf(n, kind) ==
    IF n = 0 THEN 0
    ELSE TotalOf(n - 1, kind) +
         (IF transactions[n].type = kind /\ transactions[n].amount.k = "num"
          THEN transactions[n].amount.v ELSE 0)

\* r is x to two decimals (x to the nearest 10 thousandths)
IsRounded(r, x) == r % 10 = 0 /\ r - x \in -5..5

NoCharts == resp.category_plot = "None" /\ resp.trend_plot = "None"

-----------------------------------------------------------------------------
(* Properties of uploads *)

\* the position of a canonical label in Aliases and Required
Field(c) == CHOOSE a \in 1..Len(Required) : Required[a] = c

fDate == Field(cDate)

fCategory == Field(cCategory)

fAmount == Field(cAmount)

fType == Field(cType)

fNotes == Field(cNotes)

Options(a) == {Aliases[a].options[j] : j \in 1..Len(Aliases[a].options)}

\* the columns of a file whose header is an alias of field a
FileCols(file, a) == {i \in 1..Len(file.cols) : Key(file.cols[i]) \in Options(a)}

FileHas(file, a) == FileCols(file, a) # {}

FileRows(file) == 1..Len(file.rows)

\* the cell of the normalised frame in row r under label c
Out(r, c) == resp.out.rows[r][First(resp.out, c)]

\* the date of a cell names a day of the calendar
CellDateParses(c) == c.d.f \in {"iso", "loose"} /\ ValidDate(c.d)

\* by the derivation rules of the normaliser's contract (type from the amount's
\* sign, category from the vendor text or "Other", notes ""), only date and amount
\* can be missing after derivation
C6Fails(file) ==
    \/ ~FileHas(file, fDate)
    \/ ~FileHas(file, fAmount)
    \/ \E r \in FileRows(file) :
        \/ \E i \in FileCols(file, fDate) : ~CellDateParses(file.rows[r][i])
        \/ \E i \in FileCols(file, fAmount) : file.rows[r][i].a.k # "num"

\* C6: a bulk upload is all-or-nothing: it fails with a message and leaves the
\* stored rows as they were if a required field is missing after derivation or a
\* date or amount does not parse; otherwise every row of the file is inserted.
C6_UploadAllOrNothing ==
    [][req'.op = "upload" =>
        IF C6Fails(req'.file)
        THEN ~resp'.ok /\ resp'.flash = "Upload failed" /\ transactions' = transactions
        ELSE /\ resp'.ok
             /\ Len(transactions') = Len(transactions) + Len(req'.file.rows)
             /\ SubSeq(transactions', 1, Len(transactions)) = transactions]_vars

\* C5: an upload with parsable date and amount columns but neither a category
\* nor a notes column normalises: every row gets category "Other" and notes "",
\* and the rows are inserted.
C5_DefaultsWithoutCategoryAndNotes ==
    (/\ resp.op = "upload"
     /\ ~C6Fails(req.file)
     /\ ~FileHas(req.file, fCategory)
     /\ ~FileHas(req.file, fNotes)) =>
        /\ resp.ok
        /\ Len(transactions) = Len(req.file.rows)
        /\ \A r \in FileRows(req.file) :
            /\ Out(r, cCategory) = Other
            /\ Out(r, cNotes) = Empty

\* the one amount column of a file
AmountCol(file) == CHOOSE i \in FileCols(file, fAmount) : TRUE

kAmazon == <<"a","m","a","z","o","n">>

cShopping == <<"S","h","o","p","p","i","n","g">>

RuleHits(i, t) == Contains(VENDOR_RULES[i].key, Lower(t))

\* cat is the category of the first rule, in table order, whose keyword is in t
\* (any case), or "Other" when there is none
IsFirstRuleCategory(cat, t) ==
    \/ \E i \in 1..Len(VENDOR_RULES) :
        /\ RuleHits(i, t)
        /\ \A j \in 1..(i - 1) : ~RuleHits(j, t)
        /\ cat = VENDOR_RULES[i].cat
    \/ /\ \A i \in 1..Len(VENDOR_RULES) : ~RuleHits(i, t)
       /\ cat = Other

\* the one notes column of a file: its vendor text
NotesCol(file) == CHOOSE i \in FileCols(file, fNotes) : TRUE

VendorText(r) == req.file.rows[r][NotesCol(req.file)].t

\* an upload without a category column was normalised
DerivedCategory == resp.op = "upload" /\ resp.ok /\ ~FileHas(req.file, fCategory)

\* C4 (as stated): without a category column each row's category is that of the
\* first rule whose keyword is in the row's vendor text, or "Other"; in
\* particular any text containing "amazon" is categorised "Shopping".
C4_AmazonAlwaysShopping ==
    DerivedCategory =>
        \A r \in FileRows(req.file) :
            VendorText(r) \notin NaValues =>
                /\ IsFirstRuleCategory(Out(r, cCategory), VendorText(r))
                /\ Contains(kAmazon, Lower(VendorText(r))) => Out(r, cCategory) = cShopping

\* C4 (amended): the first rule in table order decides, so a text containing
\* "amazon" is "Shopping" only if it contains none of the earlier keywords
\* (uber, ola, zomato, swiggy); a row without vendor text is "Other".
C4_FirstRuleDecides ==
    DerivedCategory =>
        \A r \in FileRows(req.file) :
            /\ transactions[r].category = Out(r, cCategory)
            /\ IF VendorText(r) \in NaValues
               THEN Out(r, cCategory) = Other
               ELSE /\ IsFirstRuleCategory(Out(r, cCategory), VendorText(r))
                    /\ (/\ Contains(kAmazon, Lower(VendorText(r)))
                        /\ \A i, j \in 1..Len(VENDOR_RULES) :
                            (VENDOR_RULES[i].key = kAmazon /\ j < i) =>
                                ~RuleHits(j, VendorText(r))) =>
                            Out(r, cCategory) = cShopping

\* "Amazon order" became Shopping and "cola at amazon" became Travel
C4_Witness ==
    /\ DerivedCategory
    /\ Len(req.file.rows) = 2
    /\ VendorText(1) = tAmazonOrder
    /\ Out(1, cCategory) = cShopping
    /\ VendorText(2) = tColaAmazon
    /\ Out(2, cCategory) # cShopping

\* the columns of a file under the earliest alias of field a that the file has
EarliestCols(file, a) ==
    LET js == {j \in 1..Len(Aliases[a].options) :
                \E i \in 1..Len(file.cols) : Key(file.cols[i]) = Aliases[a].options[j]}
        j0 == CHOOSE j \in js : \A k \in js : j <= k
    IN  {i \in 1..Len(file.cols) : Key(file.cols[i]) = Aliases[a].options[j0]}

\* the normalised frame has one column for field a, holding the cells of one
\* file column under the earliest alias
OneColumnFromEarliest(a) ==
    /\ Cardinality(Positions(resp.out, Required[a])) = 1
    /\ FileHas(req.file, a) =>
        \E i \in EarliestCols(req.file, a) :
            \A r \in FileRows(req.file) :
                Out(r, Required[a]) =
                    CoerceCell(Required[a], ReadCell(req.file.rows[r][i]))

\* C9: column detection is first-match-wins over the alias table: of several
\* columns matching aliases of one field exactly one, the one matching the
\* earliest alias whatever the column order, becomes the canonical column, and
\* the normalised output never has two columns for one canonical field.
C9_FirstMatchWins ==
    (resp.op = "upload" /\ resp.ok) => \A a \in 1..Len(Required) : OneColumnFromEarliest(a)

\* no two headers of the file are equal after lower() and strip()
DistinctKeys(file) ==
    \A i, j \in 1..Len(file.cols) : i # j => Key(file.cols[i]) # Key(file.cols[j])

\* first-match-wins does hold of files whose headers stay distinct after
\* lower() and strip()
FirstMatchWinsDistinctKeys ==
    (resp.op = "upload" /\ resp.ok /\ DistinctKeys(req.file)) =>
        \A a \in 1..Len(Required) : OneColumnFromEarliest(a)

\* a file with date aliases in either order was normalised
FirstMatchWinsSeen ==
    /\ resp.op = "upload"
    /\ resp.ok
    /\ Cardinality(FileCols(req.file, fDate)) = 2
    /\ Key(req.file.cols[1]) # cDate

-----------------------------------------------------------------------------
(* Properties of export after import *)

\* a dataset of canonical rows: the canonical header, each row an ISO date of
\* the calendar, a category, a number and a kind of {income, expense}
Canonical(file) ==
    /\ file.cols = Required
    /\ \A r \in FileRows(file) :
        /\ file.rows[r][fDate].d.f = "iso"
        /\ ValidDate(file.rows[r][fDate].d)
        /\ file.rows[r][fCategory].t # Empty
        /\ file.rows[r][fAmount].a.k = "num"
        /\ file.rows[r][fType].t \in {Income, Expense}

\* the exported line has the five values of the file's row
SameValues(line, row) ==
    /\ line.date = row[fDate].d
    /\ line.category = row[fCategory].t
    /\ line.amount = row[fAmount].a
    /\ line.type = row[fType].t
    /\ line.notes = row[fNotes].t

\* the exported lines are the file's rows, in order
SameRows(csv, file) ==
    /\ Len(csv) = Len(file.rows)
    /\ \A r \in FileRows(file) : SameValues(csv[r], file.rows[r])

\* C2: Export(Import(X)) = X: a dataset X of canonical rows uploaded into an
\* empty store is imported, and the rows GET /export produces are the rows of X
\* in the same order with the same date, category, amount, kind and notes.
C2_ExportOfImportIsX ==
    /\ (resp.op = "upload" /\ Canonical(req.file)) => resp.ok
    /\ (req.op = "export" /\ imported.set /\ Canonical(imported.file)) =>
            resp.ok /\ SameRows(resp.csv, imported.file)

\* no category is missing or a na_values token of read_csv, no notes are such a token
NoNaText(file) ==
    \A r \in FileRows(file) :
        /\ file.rows[r][fCategory].t \notin NaValues
        /\ file.rows[r][fNotes].t \notin NaValues \ {Empty}

\* the round trip does hold of the canonical datasets that read_csv reads as written
ExportOfImportNoNaText ==
    (req.op = "export" /\ imported.set /\ Canonical(imported.file)
        /\ NoNaText(imported.file)) =>
            resp.ok /\ SameRows(resp.csv, imported.file)

\* a two-row canonical dataset, read as written, was imported and exported
ExportOfImportSeen ==
    /\ req.op = "export"
    /\ imported.set
    /\ Canonical(imported.file)
    /\ NoNaText(imported.file)
    /\ Len(imported.file.rows) = MaxRows
    /\ resp.ok

=============================================================================
